---- MODULE Spec2Model ----
(***************************************************************************)
(* Annual technology-choice solver of mppsteel:                            *)
(*   solver.py (choose_technology, return_best_tech, apply_constraints,    *)
(*   PlantChoices), tco_and_abatement_optimizer.py (get_best_choice and    *)
(*   its helpers), reference_lists.py and model_config.py (reference data).*)
(* MaterialUsage, the plant investment cycle container, the availability   *)
(* check, the usage look-ups and the open/close flow are imported by       *)
(* solver.py from modules outside src/; they are modelled from spec.md.    *)
(*                                                                         *)
(* Numbers: TCO values are integers, abated emissions are integers in      *)
(* tenths, weights are integers in tenths; every comparison the code makes *)
(* on floats is made here on the cross-multiplied integers.                *)
(***************************************************************************)
EXTENDS Integers, Sequences, FiniteSets, TLC

\* ------------------------------------------------------------------ bounds
\* number of simulated years after MODEL_YEAR_START
MaxYears == 2
\* largest registered yearly capacity of a resource
MaxCap == 1

\* --------------------------------------------------------- model_config.py
MODEL_YEAR_START == 2020
MODEL_YEAR_END == MODEL_YEAR_START + MaxYears
INVESTMENT_CYCLE_DURATION_YEARS == 20
INVESTMENT_OFFCYCLE_BUFFER_TOP == 3
INVESTMENT_OFFCYCLE_BUFFER_TAIL == 8
\* TCO_RANK_2_SCALER = 1.3 and TCO_RANK_1_SCALER = 1.1, in tenths
TCO_RANK_2_SCALER == 13
TCO_RANK_1_SCALER == 11
\* ABATEMENT_RANK_2 = 2.37656..., ABATEMENT_RANK_3 = 0.93269...; abatement is
\* held in tenths, so x < ABATEMENT_RANK_k is 1000 * x < the numbers below
ABATEMENT_RANK_2 == 23766
ABATEMENT_RANK_3 == 9327

Years == MODEL_YEAR_START .. MODEL_YEAR_END

\* ------------------------------------------------------ reference_lists.py
\* the keys of RESOURCE_CONTAINER_REF, in dictionary order
RESOURCE_CONTAINER_REF == << "scrap", "biomass", "ccs", "co2" >>

\* the keys of material_models in choose_technology, in dictionary order
material_models == << "biomass", "scrap", "co2", "ccs" >>

\* the keys of SWITCH_DICT, in dictionary order
TECH_REFERENCE_LIST ==
  << "Avg BF-BOF", "BAT BF-BOF", "BAT BF-BOF_bio PCI", "BAT BF-BOF_H2 PCI",
     "DRI-Melt-BOF", "DRI-EAF", "DRI-EAF_50% bio-CH4", "DRI-EAF_50% green H2",
     "Smelting Reduction", "BAT BF-BOF+CCUS", "BAT BF-BOF+BECCUS",
     "BAT BF-BOF+CCU", "DRI-Melt-BOF_100% zero-C H2", "DRI-Melt-BOF+CCUS",
     "DRI-EAF+CCUS", "DRI-EAF_100% green H2", "Smelting Reduction+CCUS",
     "EAF", "Electrolyzer-EAF", "Electrowinning-EAF" >>

\* an EAF entry that allows a switch away from EAF
SWITCH_DICT_EAF_wide == {"EAF", "BAT BF-BOF"}

\* SWITCH_DICT["EAF"]
SWITCH_DICT_EAF == {"EAF"}

\* a Smelting Reduction entry that leaves out Smelting Reduction itself
SWITCH_DICT_Smelting_Reduction_no_self == { "Smelting Reduction+CCUS" }

\* SWITCH_DICT["Smelting Reduction"]
SWITCH_DICT_Smelting_Reduction ==
  { "Smelting Reduction", "Smelting Reduction+CCUS" }

SWITCH_DICT(t) ==
  CASE t = "Avg BF-BOF" ->
         { "Avg BF-BOF", "BAT BF-BOF", "BAT BF-BOF_bio PCI", "BAT BF-BOF_H2 PCI",
           "BAT BF-BOF+CCUS", "BAT BF-BOF+BECCUS", "BAT BF-BOF+CCU",
           "DRI-Melt-BOF", "DRI-Melt-BOF_100% zero-C H2", "DRI-Melt-BOF+CCUS",
           "DRI-EAF", "DRI-EAF_50% bio-CH4", "DRI-EAF_50% green H2",
           "DRI-EAF+CCUS", "DRI-EAF_100% green H2", "Smelting Reduction",
           "Smelting Reduction+CCUS", "EAF", "Electrolyzer-EAF",
           "Electrowinning-EAF" }
    [] t = "BAT BF-BOF" ->
         { "BAT BF-BOF", "BAT BF-BOF_bio PCI", "BAT BF-BOF_H2 PCI",
           "BAT BF-BOF+CCUS", "BAT BF-BOF+BECCUS", "BAT BF-BOF+CCU",
           "DRI-Melt-BOF", "DRI-Melt-BOF_100% zero-C H2", "DRI-Melt-BOF+CCUS",
           "DRI-EAF", "DRI-EAF_50% bio-CH4", "DRI-EAF_50% green H2",
           "DRI-EAF+CCUS", "DRI-EAF_100% green H2", "Smelting Reduction",
           "Smelting Reduction+CCUS", "EAF", "Electrolyzer-EAF",
           "Electrowinning-EAF" }
    [] t = "BAT BF-BOF_bio PCI" ->
         { "BAT BF-BOF_bio PCI", "BAT BF-BOF+CCUS", "BAT BF-BOF+BECCUS",
           "BAT BF-BOF+CCU", "DRI-Melt-BOF_100% zero-C H2", "DRI-Melt-BOF+CCUS",
           "DRI-EAF+CCUS", "DRI-EAF_100% green H2", "Smelting Reduction+CCUS",
           "EAF", "Electrolyzer-EAF", "Electrowinning-EAF" }
    [] t = "BAT BF-BOF_H2 PCI" ->
         { "BAT BF-BOF_H2 PCI", "BAT BF-BOF+CCUS", "BAT BF-BOF+BECCUS",
           "BAT BF-BOF+CCU", "DRI-Melt-BOF_100% zero-C H2", "DRI-Melt-BOF+CCUS",
           "DRI-EAF+CCUS", "DRI-EAF_100% green H2", "Smelting Reduction+CCUS",
           "EAF", "Electrolyzer-EAF", "Electrowinning-EAF" }
    [] t = "DRI-Melt-BOF" ->
         { "DRI-Melt-BOF", "DRI-Melt-BOF_100% zero-C H2", "DRI-Melt-BOF+CCUS" }
    [] t = "DRI-EAF" ->
         { "DRI-EAF", "DRI-EAF_50% bio-CH4", "DRI-EAF_50% green H2",
           "DRI-EAF+CCUS", "DRI-EAF_100% green H2", "Smelting Reduction",
           "Smelting Reduction+CCUS", "Electrolyzer-EAF", "Electrowinning-EAF" }
    [] t = "DRI-EAF_50% bio-CH4" ->
         { "DRI-EAF_50% bio-CH4", "Smelting Reduction+CCUS", "Electrolyzer-EAF",
           "DRI-EAF+CCUS", "DRI-EAF_100% green H2" }
    [] t = "DRI-EAF_50% green H2" ->
         { "DRI-EAF_50% green H2", "Smelting Reduction+CCUS", "Electrolyzer-EAF",
           "DRI-EAF+CCUS", "DRI-EAF_100% green H2" }
    [] t = "Smelting Reduction" -> SWITCH_DICT_Smelting_Reduction
    [] t = "EAF" -> SWITCH_DICT_EAF
    [] t \in { "BAT BF-BOF+CCUS", "BAT BF-BOF+BECCUS", "BAT BF-BOF+CCU",
                "DRI-Melt-BOF_100% zero-C H2", "DRI-Melt-BOF+CCUS",
                "DRI-EAF+CCUS", "DRI-EAF_100% green H2",
                "Smelting Reduction+CCUS", "Electrolyzer-EAF",
                "Electrowinning-EAF" } -> {t}

\* FURNACE_GROUP_DICT, in dictionary order (the two derived entries last)
FURNACE_GROUP_DICT ==
  << { "Avg BF-BOF", "BAT BF-BOF", "BAT BF-BOF_bio PCI", "BAT BF-BOF_H2 PCI",
       "BAT BF-BOF+CCUS", "BAT BF-BOF+BECCUS", "BAT BF-BOF+CCU" },
     { "DRI-Melt-BOF", "DRI-Melt-BOF_100% zero-C H2", "DRI-Melt-BOF+CCUS" },
     { "DRI-EAF", "DRI-EAF_50% bio-CH4", "DRI-EAF_50% green H2", "DRI-EAF+CCUS",
       "DRI-EAF_100% green H2" },
     { "Smelting Reduction", "Smelting Reduction+CCUS" },
     { "EAF" },
     { "Electrolyzer-EAF", "Electrowinning-EAF" },
     { "BAT BF-BOF+BECCUS", "BAT BF-BOF+CCUS", "DRI-Melt-BOF+CCUS",
       "DRI-EAF+CCUS", "Smelting Reduction+CCUS" },
     { "BAT BF-BOF+CCU" },
     { "DRI-Melt-BOF", "DRI-Melt-BOF_100% zero-C H2", "DRI-Melt-BOF+CCUS",
       "DRI-EAF", "DRI-EAF_50% bio-CH4", "DRI-EAF_50% green H2", "DRI-EAF+CCUS",
       "DRI-EAF_100% green H2" },
     { "EAF", "Electrolyzer-EAF", "Electrowinning-EAF" } >>

\* the "end_state" list of the technology phases
TECHNOLOGY_STATES_end_state ==
  { "BAT BF-BOF+CCUS", "DRI-EAF_100% green H2", "DRI-EAF+CCUS", "EAF",
    "BAT BF-BOF+CCU", "BAT BF-BOF+BECCUS", "Electrolyzer-EAF",
    "Smelting Reduction+CCUS", "DRI-Melt-BOF+CCUS",
    "DRI-Melt-BOF_100% zero-C H2", "Electrowinning-EAF" }

\* ------------------------------------------------------------- small helpers
Range(s) == { s[i] : i \in DOMAIN s }

SetMin(S) == CHOOSE x \in S : \A y \in S : x <= y

SetMax(S) == CHOOSE x \in S : \A y \in S : x >= y

\* the elements of sequence s that satisfy membership in S, in the order of s
RECURSIVE FilterSeq(_, _)
FilterSeq(s, S) ==
  IF s = << >> THEN << >>
  ELSE IF Head(s) \in S THEN << Head(s) >> \o FilterSeq(Tail(s), S)
       ELSE FilterSeq(Tail(s), S)

\* the first element of sequence s that is in S
FirstOf(s, S) == s[SetMin({ i \in DOMAIN s : s[i] \in S })]

\* all orderings of a finite set, as sequences without repetition
Perms(S) ==
  { s \in [1 .. Cardinality(S) -> S] : \A i, j \in DOMAIN s : i # j => s[i] # s[j] }

\* a furnace group that holds every technology
return_furnace_group_any(tech) == Range(TECH_REFERENCE_LIST)

\* dataframe_utility.return_furnace_group: the technology list of the first
\* group, in dictionary order, that contains tech (None when there is none)
return_furnace_group(tech) ==
  LET hits == { i \in DOMAIN FURNACE_GROUP_DICT : tech \in FURNACE_GROUP_DICT[i] }
  IN  IF hits = {} THEN {} ELSE FURNACE_GROUP_DICT[SetMin(hits)]

\* ------------------------------------------ tco_and_abatement_optimizer.py
\* A table slice df.loc[year, plant, start_tech] is a function from switch
\* technology to value.  A quotient is held as << numerator, denominator >>.

\* normalise_data, one entry x of the array arr: (x - min) / (max - min)
normalise_data(x, arr) == << x - SetMin(arr), SetMax(arr) - SetMin(arr) >>

\* scale_data that ignores reverse
scale_data_no_reverse(x, arr, reverse) == normalise_data(x, arr)

\* scale_data: normalise_data, or 1 - normalise_data when reverse
scale_data(x, arr, reverse) ==
  LET n == normalise_data(x, arr)
  IN  IF reverse THEN << n[2] - n[1], n[2] >> ELSE n

\* tco_ranker_logic(x, min_value): 3 above min * 1.3, 2 above min * 1.1, else 1
tco_ranker_logic(x, min_value) ==
  IF 10 * x > min_value * TCO_RANK_2_SCALER THEN 3
  ELSE IF 10 * x > min_value * TCO_RANK_1_SCALER THEN 2
  ELSE 1

\* abatement_ranker_logic(x), x in tenths
abatement_ranker_logic(x) ==
  IF 1000 * x < ABATEMENT_RANK_3 THEN 3
  ELSE IF 1000 * x < ABATEMENT_RANK_2 THEN 2
  ELSE 1

\* min_ranker(rank=True), data_type "tco": the rank column of the whole slice
min_ranker_tco_rank(tco) ==
  IF Cardinality(DOMAIN tco) = 1 THEN [t \in DOMAIN tco |-> 1]
  ELSE LET min_value == SetMin({ tco[t] : t \in DOMAIN tco })
       IN  [t \in DOMAIN tco |-> tco_ranker_logic(tco[t], min_value)]

\* min_ranker(rank=True), data_type "abatement"
min_ranker_abatement_rank(ab) ==
  IF Cardinality(DOMAIN ab) = 1 THEN [t \in DOMAIN ab |-> 1]
  ELSE [t \in DOMAIN ab |-> abatement_ranker_logic(ab[t])]

\* DataFrame.filter(items=technology_list, axis=0): the rows that are listed
filter_items(table, technology_list) ==
  { t \in DOMAIN table : t \in Range(technology_list) }

\* get_best_choice, solver_logic "scaled": the values the call can return.
\* "nan" is the float nan idxmin gives when every overall_score is nan.
get_best_choice_scaled(tco, ab, start_tech, w, technology_list) ==
  LET rows  == filter_items(tco, technology_list)
      tarr  == { tco[t] : t \in rows }
      aarr  == { ab[t] : t \in rows }
      ts(t) == scale_data(tco[t], tarr, FALSE)
      as(t) == scale_data(ab[t], aarr, TRUE)
      \* overall_score over the common denominator ts[2] * as[2]
      overall_score(t) ==
        ts(t)[1] * w.tco * as(t)[2] + as(t)[1] * w.emissions * ts(t)[2]
  IN  IF Cardinality(rows) < 2 THEN {start_tech}
      ELSE IF SetMax(tarr) = SetMin(tarr) \/ SetMax(aarr) = SetMin(aarr)
           THEN {"nan"}
           ELSE \* filter(items=...) keeps the order of technology_list, the
                \* sort is stable and idxmin takes the first minimum
                { FirstOf(technology_list,
                    { t \in rows : \A u \in rows :
                                     overall_score(t) <= overall_score(u) }) }

\* get_best_choice, solver_logic "ranked": the values the call can return.
\* "ValueError" is idxmin raising on the empty frame.
get_best_choice_ranked(tco, ab, start_tech, w, technology_list) ==
  LET tco_rank == min_ranker_tco_rank(tco)
      ab_rank  == min_ranker_abatement_rank(ab)
      rows     == filter_items(tco, technology_list)
      overall_rank(t) == tco_rank[t] * w.tco + ab_rank[t] * w.emissions
      best_values ==
        { t \in rows : \A u \in rows : overall_rank(t) <= overall_rank(u) }
  IN  IF rows = {} THEN {"ValueError"}
      ELSE IF Cardinality(best_values) > 1
           THEN \* min_ranker on the tied rows, which keep the row order of
                \* the table (the key order of SWITCH_DICT)
                { FirstOf(TECH_REFERENCE_LIST,
                    { t \in best_values : \A u \in best_values : tco[t] <= tco[u] }) }
           ELSE best_values

get_best_choice(tco, ab, start_tech, solver_logic, w, technology_list) ==
  IF solver_logic = "scaled"
  THEN get_best_choice_scaled(tco, ab, start_tech, w, technology_list)
  ELSE get_best_choice_ranked(tco, ab, start_tech, w, technology_list)

\* --------------------------------------------------------- external inputs
\* The roster, the business cases, the availability table and the cost tables
\* are read from pickles; the values below are one small data set.

\* plants of the 2020 roster, in the row order of steel_plants_processed
InitialRoster == << "p1", "p2", "p3" >>

\* the plant the open/close flow may open during the run
NewPlants == { "p4" }

\* rows of the plant table whose technology_in_2020 is missing
IncompletePlants == { "p5", "p6" }

\* a row of the plant table with primary 'N' whose technology is not EAF
NonPrimaryPlants == { "p7" }

AllPlants ==
  ((Range(InitialRoster) \cup NewPlants) \cup IncompletePlants) \cup NonPrimaryPlants

\* column technology_in_2020 of the plant table
technology_in_2020(p) ==
  CASE p = "p1" -> "Avg BF-BOF"
    [] p = "p2" -> "EAF"
    [] p = "p3" -> "Not operating"
    [] p = "p4" -> "DRI-EAF"
    [] p = "p5" -> ""      \* empty string
    [] p = "p6" -> "nan"   \* float nan, not a string
    [] p = "p7" -> "DRI-EAF"

\* projected usage of one resource by one plant running tech (plant capacity
\* times the business-case consumption of the resource's materials)
Usage(tech, resource) ==
  CASE tech = "Avg BF-BOF" -> IF resource = "scrap" THEN 1 ELSE 0
    [] tech = "BAT BF-BOF" -> IF resource \in {"scrap", "biomass"} THEN 1 ELSE 0
    [] tech = "DRI-EAF"    -> IF resource \in {"ccs", "co2"} THEN 1 ELSE 0
    [] tech = "EAF"        -> IF resource = "scrap" THEN 2 ELSE 0
    [] OTHER               -> 0

\* column "Year available from" of the technology availability table
tech_avail_from_dict(tech) ==
  CASE tech \in {"Avg BF-BOF", "BAT BF-BOF", "EAF"} -> MODEL_YEAR_START
    [] tech = "DRI-EAF" -> MODEL_YEAR_START + 1
    [] OTHER -> MODEL_YEAR_START + 30

\* tco column of tco_summary_data per switch technology, for two cost cases
TcoTable(case, tech) ==
  IF case = 1
  THEN CASE tech = "Avg BF-BOF" -> 99
         [] tech = "BAT BF-BOF" -> 90
         [] tech = "DRI-EAF"    -> 153
         [] tech = "EAF"        -> 108
         [] OTHER               -> 180
  ELSE CASE tech = "Avg BF-BOF" -> 90
         [] OTHER               -> 180

\* abated_combined_emissivity per switch technology, in tenths
AbatementTable(case, tech) ==
  IF case = 1
  THEN CASE tech = "Avg BF-BOF" -> 0
         [] tech = "BAT BF-BOF" -> 24
         [] tech = "DRI-EAF"    -> 10
         [] tech = "EAF"        -> 30
         [] OTHER               -> 40
  ELSE CASE tech = "Avg BF-BOF" -> 10
         [] OTHER               -> 0

\* the weighting scenario TECH_SWITCH_SCENARIOS[...], in tenths
proportions_dict == [tco |-> 6, emissions |-> 4]

\* ------------------------------------- solver_constraints.py (from spec.md)
\* tech_availability_check: available from its start year (no moratorium)
tech_availability_check(tech, y) == y >= tech_avail_from_dict(tech)

\* MaterialUsage.set_year_balance: the year's running balance back to zero
set_year_balance(bal, resource, y) == [bal EXCEPT ![resource][y] = 0]

\* constraint_transaction accepting only below the capacity
constraint_transaction_strict(bal, cap, resource, y, amount, override_constraint) ==
  IF override_constraint
  THEN << TRUE, [bal EXCEPT ![resource][y] = @ + amount] >>
  ELSE IF bal[resource][y] + amount < cap[resource][y]
       THEN << TRUE, [bal EXCEPT ![resource][y] = @ + amount] >>
       ELSE << FALSE, bal >>

\* constraint_transaction booking a rejected amount all the same
constraint_transaction_books_rejected(bal, cap, resource, y, amount, override_constraint) ==
  IF override_constraint
  THEN << TRUE, [bal EXCEPT ![resource][y] = @ + amount] >>
  ELSE << bal[resource][y] + amount <= cap[resource][y],
          [bal EXCEPT ![resource][y] = @ + amount] >>

\* MaterialUsage.constraint_transaction: << accepted, balance afterwards >>
constraint_transaction(bal, cap, resource, y, amount, override_constraint) ==
  IF override_constraint
  THEN << TRUE, [bal EXCEPT ![resource][y] = @ + amount] >>
  ELSE IF bal[resource][y] + amount <= cap[resource][y]
       THEN << TRUE, [bal EXCEPT ![resource][y] = @ + amount] >>
       ELSE << FALSE, bal >>

\* return_projected_usage: usage of one resource by plant if it ran tech
return_projected_usage(plant_name, tech, resource) == Usage(tech, resource)

RECURSIVE SumUsage(_, _, _)
SumUsage(plants, choice_of_year, resource) ==
  IF plants = {} THEN 0
  ELSE LET p == CHOOSE q \in plants : TRUE
       IN  Usage(choice_of_year[p], resource)
             + SumUsage(plants \ {p}, choice_of_year, resource)

\* return_current_usage: usage of one resource by the listed plants in the
\* technologies chosen for them this year
return_current_usage(plants, choice_of_year, resource) ==
  SumUsage(plants, choice_of_year, resource)

\* ------------------------------ plant investment cycle container (spec.md)
\* the next scheduled main-cycle year after y, or 0 when there is none
NextCycleYear(cycles, y) ==
  IF { c \in cycles : c > y } = {} THEN 0 ELSE SetMin({ c \in cycles : c > y })

\* a transitional switch offered in every year before the next cycle year
return_plant_switch_type_no_window(cycles, used, y) ==
  IF y \in cycles THEN "main cycle"
  ELSE IF NextCycleYear(cycles, y) # 0 /\ NextCycleYear(cycles, y) \notin used
       THEN "trans switch"
       ELSE "no switch"

\* return_plant_switch_type
return_plant_switch_type(cycles, used, y) ==
  IF y \in cycles THEN "main cycle"
  ELSE LET c == NextCycleYear(cycles, y)
       IN  IF /\ c # 0
              /\ c - INVESTMENT_OFFCYCLE_BUFFER_TOP <= y
              /\ y <= c + INVESTMENT_OFFCYCLE_BUFFER_TAIL
              /\ c \notin used
           THEN "trans switch"
           ELSE "no switch"

\* the next main-cycle year taken out of the schedule
adjust_cycle_for_transitional_switch_removes(cycles, y) ==
  cycles \ { NextCycleYear(cycles, y) }

\* adjust_cycle_for_transitional_switch: the next main-cycle year moves to a
\* full cycle after the switch year
adjust_cycle_for_transitional_switch(cycles, y) ==
  LET c == NextCycleYear(cycles, y)
  IN  IF c = 0 THEN cycles
      ELSE (cycles \ {c}) \cup { y + INVESTMENT_CYCLE_DURATION_YEARS }

\* add_new_plants: first main cycle one cycle duration after the start year
new_plant_cycles(start_year) ==
  { start_year + INVESTMENT_CYCLE_DURATION_YEARS,
    start_year + 2 * INVESTMENT_CYCLE_DURATION_YEARS }

\* ------------------------------------------------- solver.py: pure parts
\* Python truth value of a string: only the empty string is false
Truthy(v) == v # ""

\* isinstance(v, str): every value of the model but the float nan is a string
isinstance_str(v) == v # "nan"

\* all(material_check_container.values())
all_values(container) ==
  \A i \in DOMAIN RESOURCE_CONTAINER_REF : Truthy(container[RESOURCE_CONTAINER_REF[i]])

\* [resource for resource in container if container[resource]]
failure_resources_of(container) ==
  FilterSeq(RESOURCE_CONTAINER_REF,
            { r \in Range(RESOURCE_CONTAINER_REF) : Truthy(container[r]) })

\* 'PASS' if material_check else 'FAIL'
pass_or_fail(material_check) == IF material_check THEN "PASS" ELSE "FAIL"

\* the candidate request issued with override_constraint=True
candidate_request_override(bal, cap, resource, y, projected_usage) ==
  constraint_transaction(bal, cap, resource, y, projected_usage, TRUE)

\* the ledger request apply_constraints issues for one candidate and resource
candidate_request(bal, cap, resource, y, projected_usage) ==
  constraint_transaction(bal, cap, resource, y, projected_usage, FALSE)

\* the ledger request choose_technology issues for the non-switching plants
non_switcher_request(bal, cap, resource, y, current_usage) ==
  constraint_transaction(bal, cap, resource, y, current_usage, TRUE)

\* return_best_tech, "Valid Switches": keys of SWITCH_DICT that base_tech may
\* switch to, in key order
valid_switches(base_tech) ==
  FilterSeq(TECH_REFERENCE_LIST, SWITCH_DICT(base_tech))

\* return_best_tech, "Transitional switches" and "Availability checks": the
\* lists the two steps can produce.  The furnace-group intersection is a
\* Python set, so its iteration order is any order.
available_lists(base_tech, y, transitional_switch_only) ==
  LET avail == { t \in Range(TECH_REFERENCE_LIST) : tech_availability_check(t, y) }
  IN  IF transitional_switch_only /\ base_tech \notin TECHNOLOGY_STATES_end_state
      THEN Perms((Range(valid_switches(base_tech))
                    \cap return_furnace_group(base_tech)) \cap avail)
      ELSE { FilterSeq(valid_switches(base_tech), avail) }

\* the base technology never added back
add_base_tech_never(list, base_tech, y) == list

\* return_best_tech, "Add base tech if the technology is technically
\* unavailable but is already in use"
add_base_tech(list, base_tech, y) ==
  IF base_tech \notin Range(list) /\ y < tech_avail_from_dict(base_tech)
  THEN Append(list, base_tech)
  ELSE list

\* the tco column left as it is in the table
adjusted_tco_unchanged(tco, transitional_switch_only) == tco

\* return_best_tech: the tco column handed to get_best_choice
adjusted_tco(tco, transitional_switch_only) ==
  IF transitional_switch_only
  THEN (tco * INVESTMENT_CYCLE_DURATION_YEARS)
         \div (INVESTMENT_CYCLE_DURATION_YEARS
                 - (INVESTMENT_OFFCYCLE_BUFFER_TOP + INVESTMENT_OFFCYCLE_BUFFER_TAIL))
  ELSE tco

\* the float tco * 20 / (20 - (3 + 8)) is held in units of 1 / (9 * FloatScale)
FloatScale == 1000

\* the same amount added to every tco value
inflate_tco_additive(tco, e) == (tco + 50) * 9 * FloatScale + e

\* return_best_tech, the inflation in floating point: the product
\* tco * 20 / 9 is not a binary fraction in general, so the float is the exact
\* product or a neighbour of it; e is the rounding, in the unit above
inflate_tco(tco, e) == tco * INVESTMENT_CYCLE_DURATION_YEARS * FloatScale + e

\* PlantChoices.update_choices, on the dictionary of one year
update_choices(choice_of_year, plant, tech) ==
  [q \in DOMAIN choice_of_year \cup {plant} |->
     IF q = plant THEN tech ELSE choice_of_year[q]]

\* the last record replaced by the new entry
update_records_overwrite(recs, df_entry) ==
  IF recs = << >> THEN << df_entry >>
  ELSE [recs EXCEPT ![Len(recs)] = df_entry]

\* PlantChoices.update_records: self.records.append(df_entry)
update_records(recs, df_entry) == Append(recs, df_entry)

\* get_choice(year, plant): this year's entry read instead of last year's
previous_choice_same_year(all_choices, y, plant) ==
  IF y \in DOMAIN all_choices /\ plant \in DOMAIN all_choices[y]
  THEN all_choices[y][plant]
  ELSE "KeyError"

\* PlantChoices.get_choice(year - 1, plant): last year's entry of the plant
previous_choice(all_choices, y, plant) ==
  IF (y - 1) \in DOMAIN all_choices /\ plant \in DOMAIN all_choices[y - 1]
  THEN all_choices[y - 1][plant]
  ELSE "KeyError"

\* the current technology always read from the roster
starting_tech_baseline(founded, baseline, previous) == baseline

\* choose_technology: the current technology of a plant, the roster's
\* technology_in_2020 in 2020 and in the founding year, else last year's choice
starting_tech(founded, baseline, previous) ==
  IF founded THEN baseline ELSE previous

\* the cycle adjusted after every evaluation that changed the technology
cycle_adjustment_due_any_change(switch_type, best_choice_tech, current_tech) ==
  best_choice_tech # current_tech

\* choose_technology: adjust_cycle_for_transitional_switch is called in the
\* "trans switch" branch when the best choice is not the current technology
cycle_adjustment_due(switch_type, best_choice_tech, current_tech) ==
  switch_type = "trans switch" /\ best_choice_tech # current_tech

\* the switcher loop placed before the commit of the non-switchers' usage
YearPhases_switchers_first == << "non_switchers", "switchers", "commit" >>

\* the three loops of a year of choose_technology, in program order
YearPhases == << "non_switchers", "commit", "switchers" >>

\* ---------------------------------------------------------------- the state
VARIABLES
  year,                  \* the year the loop of choose_technology is in
  pc,                    \* position inside the year's body
  constraint,            \* MaterialUsage: registered capacity per resource, year
  balance,               \* MaterialUsage: running balance per resource, year
  results,               \* MaterialUsage: audit entries
  choices,               \* PlantChoices.choices: year -> plant -> technology
  records,               \* PlantChoices.records
  model_plant_df,        \* plant names of the roster, in row order
  primary,               \* column primary of the roster
  plant_cycles,          \* cycle container: scheduled main-cycle years
  trans_used,            \* cycle container: windows whose switch was taken
  plant_start_years,     \* start_of_operation per plant
  switchers,             \* switchers of the year still to be evaluated
  non_switchers,         \* non-switchers of the year still to be carried over
  non_switchers_df,      \* all non-switchers of the year
  commit_i,              \* next resource of the non-switcher commit loop
  tech_in_2020,          \* local of choose_technology, kept across iterations
  ev,                    \* locals of return_best_tech and apply_constraints
  enforce_constraints,   \* scenario_dict["enforce_constraints"]
  solver_logic,          \* SOLVER_LOGICS[...]
  trans_switch_scenario, \* scenario_dict["transitional_switch"]
  cost_case,             \* which cost tables were loaded
  open_year,             \* year the open/close flow opens the new plant, 0 for never
  accepted_total,        \* history: sum of accepted quantities per resource, year
  ledger_log,            \* history: ledger calls made so far
  rk                     \* arguments and result of a stand-alone get_best_choice call

vars ==
  << year, pc, constraint, balance, results, choices, records, model_plant_df,
     primary, plant_cycles, trans_used, plant_start_years, switchers,
     non_switchers, non_switchers_df, commit_i, tech_in_2020, ev,
     enforce_constraints, solver_logic, trans_switch_scenario, cost_case, open_year,
     accepted_total, ledger_log, rk >>

Resources == Range(RESOURCE_CONTAINER_REF)

NoEval == [ plant_name |-> "" ]

NoRank == [ out |-> "idle" ]

EmptyContainer == [ r \in Resources |-> "" ]

\* the plant tables the runs are started with: column primary of p1, the first
\* main-cycle years the cycle container holds for p1, p2 and p3, the year in
\* which the open/close flow opens the new plant (0 for never), and a further
\* row of the 2020 roster with its first main-cycle year
PlantSetups ==
  {
    [ primary |-> "Y", c1 |-> MODEL_YEAR_START + 1, c2 |-> MODEL_YEAR_START + 1,
      c3 |-> MODEL_YEAR_START + 1,
      open_year |-> MODEL_YEAR_START + 1, extra |-> << >>, c_extra |-> 0 ],
    [ primary |-> "N", c1 |-> MODEL_YEAR_START + 1, c2 |-> MODEL_YEAR_START + 1,
      c3 |-> MODEL_YEAR_START + 1,
      open_year |-> 0, extra |-> << >>, c_extra |-> 0 ],
    [ primary |-> "Y", c1 |-> MODEL_YEAR_START + 3, c2 |-> MODEL_YEAR_START + 20,
      c3 |-> MODEL_YEAR_START + 1,
      open_year |-> 0, extra |-> << >>, c_extra |-> 0 ],
    [ primary |-> "N", c1 |-> MODEL_YEAR_START + 20, c2 |-> MODEL_YEAR_START + 1,
      c3 |-> MODEL_YEAR_START + 1,
      open_year |-> MODEL_YEAR_START + 1, extra |-> << >>, c_extra |-> 0 ],
    [ primary |-> "N", c1 |-> MODEL_YEAR_START + 1, c2 |-> MODEL_YEAR_START + 20,
      c3 |-> MODEL_YEAR_START + 1,
      open_year |-> 0, extra |-> << >>, c_extra |-> 0 ],
    [ primary |-> "Y", c1 |-> MODEL_YEAR_START + 20, c2 |-> MODEL_YEAR_START + 20,
      c3 |-> MODEL_YEAR_START + 1,
      open_year |-> 0, extra |-> << >>, c_extra |-> 0 ],
    [ primary |-> "Y", c1 |-> MODEL_YEAR_START, c2 |-> MODEL_YEAR_START + 20,
      c3 |-> MODEL_YEAR_START + 1,
      open_year |-> 0, extra |-> << >>, c_extra |-> 0 ],
    [ primary |-> "Y", c1 |-> MODEL_YEAR_START + 1, c2 |-> MODEL_YEAR_START + 1,
      c3 |-> MODEL_YEAR_START + 1,
      open_year |-> 0, extra |-> << "p5" >>, c_extra |-> MODEL_YEAR_START + 1 ],
    [ primary |-> "Y", c1 |-> MODEL_YEAR_START + 1, c2 |-> MODEL_YEAR_START + 1,
      c3 |-> MODEL_YEAR_START + 1,
      open_year |-> 0, extra |-> << "p6" >>, c_extra |-> MODEL_YEAR_START + 1 ],
    [ primary |-> "Y", c1 |-> MODEL_YEAR_START + 20, c2 |-> MODEL_YEAR_START + 1,
      c3 |-> MODEL_YEAR_START + 4,
      open_year |-> 0, extra |-> << "p5" >>, c_extra |-> MODEL_YEAR_START + 4 ],
    [ primary |-> "Y", c1 |-> MODEL_YEAR_START + 20, c2 |-> MODEL_YEAR_START + 1,
      c3 |-> MODEL_YEAR_START + 4,
      open_year |-> 0, extra |-> << "p7" >>, c_extra |-> MODEL_YEAR_START + 4 ] }

\* the scenario dictionaries (and cost tables) the runs are started with
Scenarios ==
  { [ enforce_constraints |-> TRUE,  solver_logic |-> "scaled",
      transitional_switch |-> TRUE,  cost_case |-> 1 ],
    [ enforce_constraints |-> TRUE,  solver_logic |-> "ranked",
      transitional_switch |-> FALSE, cost_case |-> 2 ],
    [ enforce_constraints |-> FALSE, solver_logic |-> "scaled",
      transitional_switch |-> FALSE, cost_case |-> 2 ],
    [ enforce_constraints |-> FALSE, solver_logic |-> "ranked",
      transitional_switch |-> TRUE,  cost_case |-> 1 ] }

Init ==
  /\ year = MODEL_YEAR_START
  /\ pc = "begin_year"
  /\ \E c \in 0 .. MaxCap :
       constraint = [r \in Resources |-> [y \in Years |-> c]]
  /\ balance = [r \in Resources |-> [y \in Years |-> 0]]
  /\ results = << >>
  /\ choices = [y \in Years |-> << >>]
  /\ records = << >>
  /\ \E ps \in PlantSetups :
       /\ model_plant_df = InitialRoster \o ps.extra
       /\ primary = [p \in AllPlants |->
                      CASE p = "p1" -> ps.primary [] p = "p4" -> "Y" [] OTHER -> "N"]
       /\ plant_cycles =
            [p \in AllPlants |->
               CASE p = "p1" -> {ps.c1, ps.c1 + INVESTMENT_CYCLE_DURATION_YEARS}
                 [] p = "p2" -> {ps.c2, ps.c2 + INVESTMENT_CYCLE_DURATION_YEARS}
                 [] p = "p3" -> {ps.c3, ps.c3 + INVESTMENT_CYCLE_DURATION_YEARS}
                 [] p \in Range(ps.extra) ->
                      {ps.c_extra, ps.c_extra + INVESTMENT_CYCLE_DURATION_YEARS}
                 [] OTHER -> {}]
       /\ plant_start_years =
            [p \in AllPlants |->
               CASE p = "p1" -> ps.c1 - INVESTMENT_CYCLE_DURATION_YEARS
                 [] p = "p2" -> ps.c2 - INVESTMENT_CYCLE_DURATION_YEARS
                 [] p = "p3" -> ps.c3 - INVESTMENT_CYCLE_DURATION_YEARS
                 [] p \in Range(ps.extra) ->
                      ps.c_extra - INVESTMENT_CYCLE_DURATION_YEARS
                 [] OTHER -> 0]
       /\ open_year = ps.open_year
  /\ trans_used = [p \in AllPlants |-> {}]
  /\ switchers = << >>
  /\ non_switchers = {}
  /\ non_switchers_df = {}
  /\ commit_i = 1
  /\ tech_in_2020 = "unbound"
  /\ ev = NoEval
  /\ \E sc \in Scenarios :
       /\ enforce_constraints = sc.enforce_constraints
       /\ solver_logic = sc.solver_logic
       /\ trans_switch_scenario = sc.transitional_switch
       /\ cost_case = sc.cost_case
  /\ accepted_total = [r \in Resources |-> [y \in Years |-> 0]]
  /\ ledger_log = {}
  /\ rk = NoRank

\* ------------------------------------------------ position inside the year
PhaseIndex(ph) == CHOOSE j \in DOMAIN YearPhases : YearPhases[j] = ph

PhaseHasWork(ph, ns, ci, sw) ==
  CASE ph = "non_switchers" -> ns # {}
    [] ph = "commit"        -> ci <= Len(RESOURCE_CONTAINER_REF)
    [] ph = "switchers"     -> sw # << >>

\* the loop the program is in once the loops up to position i have nothing
\* left to do, or "year_end"
PcAfter(i, ns, ci, sw) ==
  LET pending == { j \in i .. Len(YearPhases) :
                     PhaseHasWork(YearPhases[j], ns, ci, sw) }
  IN  IF pending = {} THEN "year_end" ELSE YearPhases[SetMin(pending)]

\* moves pc (and year, at the end of the year's body)
Advance(i, ns, ci, sw) ==
  LET nxt == PcAfter(i, ns, ci, sw)
  IN  IF nxt = "year_end"
      THEN /\ pc' = IF year = MODEL_YEAR_END THEN "done" ELSE "begin_year"
           /\ year' = IF year = MODEL_YEAR_END THEN year ELSE year + 1
      ELSE /\ pc' = nxt
           /\ year' = year

LogCall(kind, resource) == [year |-> year, kind |-> kind, resource |-> resource]

\* ------------------------------------------------------------- the actions
\* choose_technology, top of the year's body: balances of the year set, the
\* year's entries of the choice container written, the open/close flow run,
\* new plants given a cycle, switchers split from non-switchers
BeginYear ==
  /\ pc = "begin_year"
  /\ LET opened == IF year = open_year
                   THEN NewPlants \ Range(model_plant_df) ELSE {}
     IN
       LET roster0 == model_plant_df
           opened_seq == FilterSeq(<< "p4" >>, opened)
           roster1 == roster0 \o opened_seq
           cycles1 == [p \in AllPlants |->
                         IF p \in opened THEN new_plant_cycles(year)
                         ELSE plant_cycles[p]]
           sw == FilterSeq(roster1,
                   { p \in Range(roster1) :
                       return_plant_switch_type(cycles1[p], trans_used[p], year)
                         # "no switch" })
           ns == Range(roster1) \ Range(sw)
       IN  /\ balance' = [r \in Resources |->
                            IF r \in Range(material_models)
                            THEN set_year_balance(balance, r, year)[r]
                            ELSE balance[r]]
           /\ choices' = [choices EXCEPT ![year] =
                            [p \in Range(roster0) |->
                               IF year = 2020 THEN technology_in_2020(p) ELSE ""]]
           /\ model_plant_df' = roster1
           /\ plant_cycles' = cycles1
           /\ plant_start_years' = [p \in AllPlants |->
                                      IF p \in opened THEN year
                                      ELSE plant_start_years[p]]
           /\ switchers' = sw
           /\ non_switchers' = ns
           /\ non_switchers_df' = ns
           /\ commit_i' = 1
           /\ Advance(1, ns, 1, sw)
  /\ ledger_log' = ledger_log \cup { LogCall("reset", r) : r \in Range(material_models) }
  /\ UNCHANGED << rk, constraint, results, records, primary, trans_used, tech_in_2020,
                  ev, enforce_constraints, solver_logic, trans_switch_scenario,
                  cost_case, open_year, accepted_total >>

\* choose_technology, one iteration of "for plant_name in non_switchers";
\* non_switchers is list(set(...)), so the order is any order
NonSwitcherStep ==
  /\ pc = "non_switchers"
  /\ \E plant_name \in non_switchers :
       LET founded == (year = 2020) \/ (year = plant_start_years[plant_name])
           current_tech == starting_tech(founded, technology_in_2020(plant_name),
                                         previous_choice(choices, year, plant_name))
       IN  /\ tech_in_2020' = IF founded THEN technology_in_2020(plant_name)
                              ELSE tech_in_2020
           /\ choices' = [choices EXCEPT ![year] =
                            update_choices(@, plant_name, current_tech)]
           /\ records' = update_records(records,
                           [ year |-> year, plant_name |-> plant_name,
                             current_tech |-> current_tech,
                             switch_tech |-> current_tech,
                             switch_type |-> "not a switch year" ])
           /\ non_switchers' = non_switchers \ {plant_name}
           /\ Advance(PhaseIndex("non_switchers"), non_switchers', commit_i, switchers)
  /\ UNCHANGED << rk, constraint, balance, results, model_plant_df, primary,
                  plant_cycles, trans_used, plant_start_years, switchers,
                  non_switchers_df, commit_i, ev, enforce_constraints,
                  solver_logic, trans_switch_scenario, cost_case, open_year,
                  accepted_total, ledger_log >>

\* choose_technology, one iteration of "for resource in RESOURCE_CONTAINER_REF":
\* the usage of the non-switching plants is booked with override
CommitNonSwitchers ==
  /\ pc = "commit"
  /\ LET resource == RESOURCE_CONTAINER_REF[commit_i]
         current_usage == return_current_usage(non_switchers_df, choices[year], resource)
         res == non_switcher_request(balance, constraint, resource, year, current_usage)
     IN  /\ balance' = res[2]
         /\ accepted_total' =
              IF res[1]
              THEN [accepted_total EXCEPT ![resource][year] = @ + current_usage]
              ELSE accepted_total
         /\ ledger_log' = ledger_log \cup { LogCall("override", resource) }
         /\ commit_i' = commit_i + 1
         /\ Advance(PhaseIndex("commit"), non_switchers, commit_i', switchers)
  /\ UNCHANGED << rk, constraint, results, choices, records, model_plant_df, primary,
                  plant_cycles, trans_used, plant_start_years, switchers,
                  non_switchers, non_switchers_df, tech_in_2020, ev,
                  enforce_constraints, solver_logic, trans_switch_scenario,
                  cost_case, open_year >>

\* current_tech in ("Not operating", "Close plant")
already_closed(current_tech) ==
  (current_tech = "Not operating") \/ (current_tech = "Close plant")

\* (tech_in_2020 == 'EAF') & (plant.primary == 'N')
secondary_eaf(local_tech_in_2020, plant_primary) ==
  (local_tech_in_2020 = "EAF") /\ (plant_primary = "N")

\* the plant at the head of the switcher loop is finished: next plant, or the
\* next loop of the year
FinishSwitcher ==
  /\ switchers' = Tail(switchers)
  /\ ev' = NoEval
  /\ Advance(PhaseIndex("switchers"), non_switchers, commit_i, Tail(switchers))

\* choose_technology, start of one iteration of "for plant in
\* switchers_df.itertuples()": current technology, the closed and the
\* secondary-EAF branches, and return_best_tech up to the constraint checks
SwitcherStart ==
  /\ pc = "switchers"
  /\ LET plant_name == Head(switchers)
         founded == (year = 2020) \/ (year = plant_start_years[plant_name])
         current_tech == starting_tech(founded, technology_in_2020(plant_name),
                                       previous_choice(choices, year, plant_name))
         t2020 == IF founded THEN technology_in_2020(plant_name) ELSE tech_in_2020
         switch_type == return_plant_switch_type(plant_cycles[plant_name],
                                                 trans_used[plant_name], year)
         tso == (switch_type = "trans switch") /\ trans_switch_scenario
         entry == [ year |-> year, plant_name |-> plant_name,
                    current_tech |-> current_tech ]
     IN  /\ tech_in_2020' = t2020
         /\ IF already_closed(current_tech)
            THEN /\ choices' = [choices EXCEPT ![year] =
                                  update_choices(@, plant_name, "Close plant")]
                 /\ records' = update_records(records,
                                 [ year |-> year, plant_name |-> plant_name,
                                   current_tech |-> current_tech,
                                   switch_tech |-> "Close plant",
                                   switch_type |-> "Plant was already closed" ])
                 /\ FinishSwitcher
            ELSE IF secondary_eaf(t2020, primary[plant_name])
            THEN /\ choices' = [choices EXCEPT ![year] =
                                  update_choices(@, plant_name, "EAF")]
                 /\ records' = update_records(records,
                                 [ year |-> year, plant_name |-> plant_name,
                                   current_tech |-> current_tech,
                                   switch_tech |-> "EAF",
                                   switch_type |-> "Secondary capacity is always EAF" ])
                 /\ FinishSwitcher
            ELSE IF ~ Truthy(current_tech)
                    \/ ~ isinstance_str(current_tech)
                    \/ current_tech \notin Range(TECH_REFERENCE_LIST)
            THEN \* ValueError of return_best_tech, or KeyError of SWITCH_DICT
                 /\ pc' = "error"
                 /\ UNCHANGED << year, choices, records, switchers, ev >>
            ELSE /\ \E l \in available_lists(current_tech, year, tso) :
                      LET list == add_base_tech(l, current_tech, year)
                      IN  /\ ev' = [ plant_name |-> plant_name,
                                     current_tech |-> current_tech,
                                     switch_type |-> switch_type,
                                     transitional_switch_only |-> tso,
                                     combined_available_list |-> list,
                                     tco_ref_data |->
                                       [t \in SWITCH_DICT(current_tech) |->
                                          adjusted_tco(TcoTable(cost_case, t), tso)],
                                     cand_i |-> 1,
                                     res_i |-> 1,
                                     material_check_container |-> EmptyContainer,
                                     technology_list |->
                                       IF enforce_constraints THEN << >> ELSE list,
                                     \* history: the year's balances when
                                     \* the evaluation of the plant began
                                     balance_before |->
                                       [r \in Resources |-> balance[r][year]] ]
                          /\ pc' = IF enforce_constraints /\ list # << >>
                                   THEN "constraints" ELSE "rank"
                 /\ UNCHANGED << year, choices, records, switchers >>
  /\ UNCHANGED << rk, constraint, balance, results, model_plant_df, primary,
                  plant_cycles, trans_used, plant_start_years, non_switchers,
                  non_switchers_df, commit_i, enforce_constraints, solver_logic,
                  trans_switch_scenario, cost_case, open_year, accepted_total, ledger_log >>

\* apply_constraints, one iteration of "for resource in RESOURCE_CONTAINER_REF"
\* for the candidate at hand; after the last resource the candidate is kept
\* or dropped and its audit entry recorded
ConstraintStep ==
  /\ pc = "constraints"
  /\ LET switch_technology == ev.combined_available_list[ev.cand_i]
         resource == RESOURCE_CONTAINER_REF[ev.res_i]
         projected_usage ==
           return_projected_usage(ev.plant_name, switch_technology, resource)
         res == candidate_request(balance, constraint, resource, year, projected_usage)
         container == [ev.material_check_container EXCEPT
                         ![resource] = pass_or_fail(res[1])]
         new_availability_list ==
           IF all_values(container)
           THEN Append(ev.technology_list, switch_technology)
           ELSE ev.technology_list
         entry == [ plant |-> ev.plant_name,
                    start_technology |-> ev.current_tech,
                    switch_technology |-> switch_technology,
                    year |-> year,
                    result |-> IF all_values(container) THEN "PASS" ELSE "FAIL",
                    failure_resources |-> failure_resources_of(container),
                    pass_result_breakdown |-> container ]
     IN  /\ balance' = res[2]
         /\ accepted_total' =
              IF res[1]
              THEN [accepted_total EXCEPT ![resource][year] = @ + projected_usage]
              ELSE accepted_total
         /\ ledger_log' = ledger_log \cup { LogCall("request", resource) }
         /\ IF ev.res_i < Len(RESOURCE_CONTAINER_REF)
            THEN /\ ev' = [ev EXCEPT !.res_i = @ + 1,
                                     !.material_check_container = container]
                 /\ results' = results
                 /\ pc' = pc
            ELSE /\ results' = Append(results, entry)
                 /\ ev' = [ev EXCEPT !.res_i = 1,
                                     !.cand_i = @ + 1,
                                     !.material_check_container = EmptyContainer,
                                     !.technology_list = new_availability_list]
                 /\ pc' = IF ev.cand_i < Len(ev.combined_available_list)
                          THEN pc ELSE "rank"
  /\ UNCHANGED << rk, year, constraint, choices, records, model_plant_df, primary,
                  plant_cycles, trans_used, plant_start_years, switchers,
                  non_switchers, non_switchers_df, commit_i, tech_in_2020,
                  enforce_constraints, solver_logic, trans_switch_scenario,
                  cost_case, open_year >>

\* return_best_tech from get_best_choice on, and the rest of the iteration of
\* the switcher loop: the choice is written, the cycle adjusted after a
\* transitional switch that changed the technology, the record appended
RankStep ==
  /\ pc = "rank"
  /\ LET plant_name == ev.plant_name
         current_tech == ev.current_tech
         tco == ev.tco_ref_data
         ab == [t \in SWITCH_DICT(current_tech) |-> AbatementTable(cost_case, t)]
     IN  \E best_choice_tech \in
              get_best_choice(tco, ab, current_tech, solver_logic,
                              proportions_dict, ev.technology_list) :
           IF best_choice_tech \in {"nan", "ValueError"}
           THEN /\ pc' = "error"
                /\ UNCHANGED << year, choices, records, switchers, ev,
                                plant_cycles, trans_used >>
           ELSE /\ choices' = [choices EXCEPT ![year] =
                                 update_choices(@, plant_name, best_choice_tech)]
                /\ IF cycle_adjustment_due(ev.switch_type, best_choice_tech, current_tech)
                   THEN /\ plant_cycles' =
                             [plant_cycles EXCEPT ![plant_name] =
                                adjust_cycle_for_transitional_switch(@, year)]
                        /\ trans_used' =
                             [trans_used EXCEPT ![plant_name] =
                                @ \cup { NextCycleYear(plant_cycles[plant_name], year) }]
                   ELSE UNCHANGED << plant_cycles, trans_used >>
                /\ records' = update_records(records,
                     [ year |-> year, plant_name |-> plant_name,
                       current_tech |-> current_tech,
                       switch_tech |-> best_choice_tech,
                       switch_type |->
                         IF ev.switch_type = "main cycle"
                         THEN IF best_choice_tech = current_tech
                              THEN "No change in main investment cycle year"
                              ELSE "Regular change in investment cycle year"
                         ELSE IF best_choice_tech # current_tech
                              THEN "Transitional switch in off-cycle investment year"
                              ELSE "No change during off-cycle investment year" ])
                /\ FinishSwitcher
  /\ UNCHANGED << rk, constraint, balance, results, model_plant_df, primary,
                  plant_start_years, non_switchers, non_switchers_df, commit_i,
                  tech_in_2020, enforce_constraints, solver_logic,
                  trans_switch_scenario, cost_case, open_year, accepted_total, ledger_log >>

Next ==
  \/ BeginYear
  \/ NonSwitcherStep
  \/ CommitNonSwitchers
  \/ SwitcherStart
  \/ ConstraintStep
  \/ RankStep

Spec == Init /\ [][Next]_vars

\* ----------------------------------- stand-alone calls of get_best_choice
\* the rows of the table slice, and the values the tables may hold
RankTechs == << "Avg BF-BOF", "BAT BF-BOF", "DRI-EAF" >>

TcoValues == {90, 100, 150}

AbatementValues == {0, 10, 24}

\* the solver at rest while get_best_choice is called on its own
IdleSolver ==
  /\ year = MODEL_YEAR_START
  /\ pc = "idle"
  /\ constraint = [r \in Resources |-> [y \in Years |-> 0]]
  /\ balance = [r \in Resources |-> [y \in Years |-> 0]]
  /\ results = << >>
  /\ choices = [y \in Years |-> << >>]
  /\ records = << >>
  /\ model_plant_df = << >>
  /\ primary = [p \in AllPlants |-> "N"]
  /\ plant_cycles = [p \in AllPlants |-> {}]
  /\ trans_used = [p \in AllPlants |-> {}]
  /\ plant_start_years = [p \in AllPlants |-> 0]
  /\ switchers = << >>
  /\ non_switchers = {}
  /\ non_switchers_df = {}
  /\ commit_i = 1
  /\ tech_in_2020 = "unbound"
  /\ ev = NoEval
  /\ enforce_constraints = FALSE
  /\ solver_logic = "scaled"
  /\ trans_switch_scenario = FALSE
  /\ cost_case = 1
  /\ open_year = 0
  /\ accepted_total = [r \in Resources |-> [y \in Years |-> 0]]
  /\ ledger_log = {}

InitRank ==
  /\ IdleSolver
  /\ rk \in { [ tco |-> t, ab |-> a,
                technology_list |-> FilterSeq(RankTechs, S),
                solver_logic |-> l,
                weights |-> proportions_dict,
                start_tech |-> b,
                tco_rank_score |-> << >>,
                out |-> "none",
                technology_list_again |-> << >>,
                again |-> "none" ] :
              t \in [Range(RankTechs) -> TcoValues],
              a \in [Range(RankTechs) -> AbatementValues],
              S \in SUBSET Range(RankTechs),
              l \in {"scaled", "ranked"},
              b \in Range(RankTechs) }

\* one call get_best_choice(tco_df, emissions_df, ..., technology_list); in
\* "ranked" mode the tco_rank_score column of the filtered frame is kept
RankCall ==
  /\ rk.out = "none"
  /\ \E best \in get_best_choice(rk.tco, rk.ab, rk.start_tech, rk.solver_logic,
                                 rk.weights, rk.technology_list) :
       rk' = [rk EXCEPT
                !.out = best,
                !.tco_rank_score =
                  IF rk.solver_logic = "ranked"
                  THEN [t \in filter_items(rk.tco, rk.technology_list) |->
                          min_ranker_tco_rank(rk.tco)[t]]
                  ELSE << >>]
  /\ UNCHANGED << year, pc, constraint, balance, results, choices, records,
                  model_plant_df, primary, plant_cycles, trans_used,
                  plant_start_years, switchers, non_switchers, non_switchers_df,
                  commit_i, tech_in_2020, ev, enforce_constraints, solver_logic,
                  trans_switch_scenario, cost_case, open_year, accepted_total, ledger_log >>

\* a second call with the same tables, plant, year, starting technology, mode
\* and weights, the same candidates arriving in any order
RankAgain ==
  /\ rk.out \notin {"idle", "none"}
  /\ rk.again = "none"
  /\ \E l \in Perms(Range(rk.technology_list)) :
       \E best \in get_best_choice(rk.tco, rk.ab, rk.start_tech, rk.solver_logic,
                                   rk.weights, l) :
         rk' = [rk EXCEPT !.technology_list_again = l, !.again = best]
  /\ UNCHANGED << year, pc, constraint, balance, results, choices, records,
                  model_plant_df, primary, plant_cycles, trans_used,
                  plant_start_years, switchers, non_switchers, non_switchers_df,
                  commit_i, tech_in_2020, ev, enforce_constraints, solver_logic,
                  trans_switch_scenario, cost_case, open_year, accepted_total, ledger_log >>

NextRank ==
  \/ RankCall
  \/ RankAgain

SpecRank == InitRank /\ [][NextRank]_vars

\* ------------------- get_best_choice on a table and on the inflated table
\* table values that include a TCO exactly 1.3 times another
InflateTcoValues == {70, 91, 100}

InflateAbatementValues == {0, 24}

\* the roundings of the inflated values: a float is a function of the value
FloatRoundings == [InflateTcoValues -> {0, 1}]

InitInflate ==
  /\ IdleSolver
  /\ rk \in { [ tco |-> t, ab |-> a,
                technology_list |-> FilterSeq(RankTechs, S),
                solver_logic |-> l,
                weights |-> proportions_dict,
                start_tech |-> b,
                tco_rank_score |-> << >>,
                out |-> "none",
                tco_inflated |-> << >>,
                out_inflated |-> "none" ] :
              t \in [Range(RankTechs) -> InflateTcoValues],
              a \in [Range(RankTechs) -> InflateAbatementValues],
              S \in SUBSET Range(RankTechs),
              l \in {"scaled", "ranked"},
              b \in Range(RankTechs) }

\* return_best_tech with transitional_switch_only: the tco column is
\* multiplied by 20 / 9 and get_best_choice called with the other arguments
\* as in the first call
RankInflated ==
  /\ rk.out \notin {"idle", "none"}
  /\ rk.out_inflated = "none"
  /\ \E e \in FloatRoundings :
       LET tco_ref_data == [t \in DOMAIN rk.tco |->
                              inflate_tco(rk.tco[t], e[rk.tco[t]])]
       IN  \E best \in get_best_choice(tco_ref_data, rk.ab, rk.start_tech,
                                       rk.solver_logic, rk.weights,
                                       rk.technology_list) :
             rk' = [rk EXCEPT !.tco_inflated = tco_ref_data,
                              !.out_inflated = best]
  /\ UNCHANGED << year, pc, constraint, balance, results, choices, records,
                  model_plant_df, primary, plant_cycles, trans_used,
                  plant_start_years, switchers, non_switchers, non_switchers_df,
                  commit_i, tech_in_2020, ev, enforce_constraints, solver_logic,
                  trans_switch_scenario, cost_case, open_year, accepted_total,
                  ledger_log >>

NextInflate ==
  \/ RankCall
  \/ RankInflated

SpecInflate == InitInflate /\ [][NextInflate]_vars

\* ------------------------------------- return_best_tech called on its own
\* the solver at rest while the candidate construction of return_best_tech
\* is called for one base technology, year and transitional_switch_only
InitCand ==
  /\ year \in Years
  /\ pc = "idle"
  /\ constraint = [r \in Resources |-> [y \in Years |-> 0]]
  /\ balance = [r \in Resources |-> [y \in Years |-> 0]]
  /\ results = << >>
  /\ choices = [y \in Years |-> << >>]
  /\ records = << >>
  /\ model_plant_df = << >>
  /\ primary = [p \in AllPlants |-> "N"]
  /\ plant_cycles = [p \in AllPlants |-> {}]
  /\ trans_used = [p \in AllPlants |-> {}]
  /\ plant_start_years = [p \in AllPlants |-> 0]
  /\ switchers = << >>
  /\ non_switchers = {}
  /\ non_switchers_df = {}
  /\ commit_i = 1
  /\ tech_in_2020 = "unbound"
  /\ \E base_tech \in Range(TECH_REFERENCE_LIST), tso \in BOOLEAN :
       ev = [ plant_name |-> "p1",
              current_tech |-> base_tech,
              switch_type |-> IF tso THEN "trans switch" ELSE "main cycle",
              transitional_switch_only |-> tso,
              combined_available_list |-> << >>,
              tco_ref_data |-> << >>,
              cand_i |-> 0,
              res_i |-> 1,
              material_check_container |-> EmptyContainer,
              technology_list |-> << >> ]
  /\ enforce_constraints = FALSE
  /\ solver_logic = "scaled"
  /\ trans_switch_scenario = ev.transitional_switch_only
  /\ cost_case = 1
  /\ open_year = 0
  /\ accepted_total = [r \in Resources |-> [y \in Years |-> 0]]
  /\ ledger_log = {}
  /\ rk = NoRank

\* return_best_tech from "Valid Switches" to "Add base tech"
CandidateCall ==
  /\ pc = "idle"
  /\ ev.plant_name # ""
  /\ ev.cand_i = 0
  /\ \E l \in available_lists(ev.current_tech, year, ev.transitional_switch_only) :
       ev' = [ev EXCEPT
                !.combined_available_list = add_base_tech(l, ev.current_tech, year),
                !.cand_i = 1]
  /\ UNCHANGED << year, pc, constraint, balance, results, choices, records,
                  model_plant_df, primary, plant_cycles, trans_used,
                  plant_start_years, switchers, non_switchers, non_switchers_df,
                  commit_i, tech_in_2020, enforce_constraints, solver_logic,
                  trans_switch_scenario, cost_case, open_year, accepted_total,
                  ledger_log, rk >>

NextCand == CandidateCall

SpecCand == InitCand /\ [][NextCand]_vars

\* ------------------------------------------------------------ the claims
\* the resource and the outcome of the request a ConstraintStep makes
RequestResource == RESOURCE_CONTAINER_REF[ev.res_i]

RequestQuantity ==
  return_projected_usage(ev.plant_name, ev.combined_available_list[ev.cand_i],
                         RequestResource)

RequestOutcome ==
  IF ev.res_i < Len(RESOURCE_CONTAINER_REF)
  THEN ev'.material_check_container[RequestResource]
  ELSE results'[Len(results')].pass_result_breakdown[RequestResource]

\* the resources whose request the audit entry e shows as rejected
RejectedResources(e) ==
  { r \in Resources : e.pass_result_breakdown[r] = "FAIL" }

\* year y has been processed completely
YearDone(y) == y < year \/ pc = "done"

\* C1: under enforced constraints the list apply_constraints builds holds
\* exactly the candidates of the plant all of whose resource requests were
\* accepted; a candidate with a rejected request is never in it.
C1_SurvivorsPassedEveryRequest ==
  (pc \in {"constraints", "rank"} /\ enforce_constraints) =>
    \A i \in DOMAIN results :
      (results[i].plant = ev.plant_name /\ results[i].year = year) =>
        (results[i].switch_technology \in Range(ev.technology_list)
           <=> RejectedResources(results[i]) = {})

\* C2: a request with override false is accepted if and only if
\* balance + quantity <= capacity of the year, and a rejected request leaves
\* the balance as it was.
C2_NonOverridingRequest ==
  [][ pc = "constraints" =>
        /\ (RequestOutcome = "PASS") <=>
             (balance[RequestResource][year] + RequestQuantity
                <= constraint[RequestResource][year])
        /\ (RequestOutcome = "FAIL") => (balance' = balance) ]_vars

C2_Witness ==
  /\ pc = "constraints"
  /\ \E r1, r2 \in Resources :
       /\ ev.material_check_container[r1] = "FAIL"
       /\ ev.material_check_container[r2] = "PASS"
       /\ balance[r2][year] > 0

\* C3 as stated: no accepted transaction, overriding or not, leaves a balance
\* above the registered capacity of its year.
C3_BalanceNeverAboveCapacity ==
  \A r \in Resources, y \in Years : balance[r][y] <= constraint[r][y]

\* C3 amended: no accepted request of a switching-plant candidate leaves the
\* balance above the registered capacity (the overriding commit of the
\* non-switching plants is accepted whatever the capacity).
C3_CandidateRequestWithinCapacity ==
  [][ (pc = "constraints" /\ RequestOutcome = "PASS") =>
        balance'[RequestResource][year] <= constraint[RequestResource][year] ]_vars

C3_Witness ==
  /\ pc = "constraints"
  /\ \E r1, r2 \in Resources :
       /\ balance[r1][year] > constraint[r1][year]
       /\ ev.material_check_container[r2] = "PASS"
       /\ balance[r2][year] = constraint[r2][year]
       /\ balance[r2][year] > 0

\* C4: for every resource and year the balance is the sum of the quantities
\* of the accepted transactions since the year's reset; rejected requests add
\* nothing.
C4_LedgerConservation ==
  \A r \in Resources, y \in Years : balance[r][y] = accepted_total[r][y]

C4_Witness ==
  \E r \in Resources :
    /\ accepted_total[r][year] > 0
    /\ \E i \in DOMAIN results :
         results[i].year = year /\ results[i].pass_result_breakdown[r] = "FAIL"
    /\ \E r2 \in Resources, i \in DOMAIN results :
         /\ results[i].year = year
         /\ results[i].pass_result_breakdown[r2] = "PASS"
         /\ Usage(results[i].switch_technology, r2) > 0

\* C5: years are processed in ascending order; in each year the balances are
\* reset first, then the non-switchers' usage of every resource is committed
\* with override, and only then the first non-overriding request is made.
C5_LedgerOrder ==
  [][ /\ year' \in {year, year + 1}
      /\ \A e \in ledger_log' \ ledger_log :
           /\ e.year = year
           /\ (e.kind = "reset") =>
                (\A d \in ledger_log : d.year < e.year)
           /\ (e.kind = "override") =>
                /\ [year |-> e.year, kind |-> "reset", resource |-> e.resource]
                     \in ledger_log
                /\ \A d \in ledger_log : ~ (d.year = e.year /\ d.kind = "request")
           /\ (e.kind = "request") =>
                \A r \in Resources :
                  /\ [year |-> e.year, kind |-> "reset", resource |-> r] \in ledger_log
                  /\ [year |-> e.year, kind |-> "override", resource |-> r] \in ledger_log
    ]_vars

C5_Witness ==
  /\ year > MODEL_YEAR_START
  /\ \E r \in Resources : LogCall("request", r) \in ledger_log
  /\ \E d \in ledger_log : d.year < year /\ d.kind = "request"

\* C6: a plant whose technology of year Y is "Close plant" has "Close plant"
\* in every later processed year, as switcher and as non-switcher.
C6_ClosedStaysClosed ==
  \A p \in AllPlants, y \in Years, y2 \in Years :
    (y < y2 /\ YearDone(y2) /\ p \in DOMAIN choices[y]
       /\ choices[y][p] = "Close plant") =>
      (p \in DOMAIN choices[y2] /\ choices[y2][p] = "Close plant")

C6_Witness ==
  /\ pc = "done"
  /\ choices[MODEL_YEAR_START]["p3"] = "Close plant"
  /\ choices[MODEL_YEAR_END]["p3"] = "Close plant"
  /\ \E i \in DOMAIN records :
       /\ records[i].plant_name = "p3"
       /\ records[i].current_tech = "Close plant"
       /\ records[i].switch_type = "not a switch year"
  /\ \E i \in DOMAIN records :
       /\ records[i].plant_name = "p3"
       /\ records[i].current_tech = "Close plant"
       /\ records[i].switch_type = "Plant was already closed"

\* the plants carried over so far in the current year that have an entry for
\* the year before
CarriedOver ==
  IF pc \in {"begin_year", "idle"} THEN {}
  ELSE { p \in non_switchers_df \ non_switchers :
           /\ year > MODEL_YEAR_START
           /\ p \in DOMAIN choices[year - 1]
           /\ return_plant_switch_type(plant_cycles[p], trans_used[p], year)
                = "no switch" }

\* C7: in a year in which a plant's switch type is "no switch" its technology
\* is the one chosen for it the year before, and its decision record carries
\* the rationale 'not a switch year'.
C7_NoSwitchCarriesForward ==
  \A p \in CarriedOver :
    /\ choices[year][p] = choices[year - 1][p]
    /\ \E i \in DOMAIN records :
         /\ records[i].year = year
         /\ records[i].plant_name = p
         /\ records[i].switch_tech = choices[year - 1][p]
         /\ records[i].switch_type = "not a switch year"
    /\ \A i \in DOMAIN records :
         (records[i].year = year /\ records[i].plant_name = p) =>
           records[i].switch_type = "not a switch year"

C7_Witness ==
  \E p \in CarriedOver :
    /\ choices[year][p] = "BAT BF-BOF"
    /\ technology_in_2020(p) = "Avg BF-BOF"

\* C8: a non-primary plant whose 2020 technology is EAF has technology EAF in
\* every processed year in which it is not closed, main-cycle and
\* transitional-switch years included.
C8_SecondaryEafStaysEaf ==
  \A p \in Range(model_plant_df), y \in Years :
    (technology_in_2020(p) = "EAF" /\ primary[p] = "N" /\ YearDone(y)
       /\ p \in DOMAIN choices[y] /\ choices[y][p] # "Close plant") =>
      choices[y][p] = "EAF"

C8_Witness ==
  /\ pc = "done"
  /\ \E i, j, k \in DOMAIN records :
       /\ records[i].plant_name = "p2"
       /\ records[i].switch_type = "No change in main investment cycle year"
       /\ records[j].plant_name = "p2"
       /\ records[j].switch_type = "Secondary capacity is always EAF"
       /\ records[k].plant_name = "p2"
       /\ records[k].switch_type = "not a switch year"
  /\ \A y \in Years : choices[y]["p2"] = "EAF"

\* C9: every candidate evaluated under enforced constraints gets one audit
\* entry; its result is "FAIL" exactly when a resource request of the
\* candidate was rejected, and failure_resources lists exactly the rejected
\* resources.
C9_AuditEntryFaithful ==
  /\ \A i \in DOMAIN results :
       /\ (results[i].result = "FAIL") <=> (RejectedResources(results[i]) # {})
       /\ results[i].failure_resources
            = FilterSeq(RESOURCE_CONTAINER_REF, RejectedResources(results[i]))
  /\ \A i, j \in DOMAIN results :
       (/\ results[i].plant = results[j].plant
        /\ results[i].year = results[j].year
        /\ results[i].switch_technology = results[j].switch_technology) => i = j

\* the rows get_best_choice is left with after the filter on technology_list
Surviving == { t \in DOMAIN rk.tco : t \in Range(rk.technology_list) }

\* weight_tco * norm(tco) + weight_emissions * (1 - norm(abatement)), times
\* the two positive normalisation ranges
WeightedScore(t) ==
  LET tarr == { rk.tco[u] : u \in Surviving }
      aarr == { rk.ab[u] : u \in Surviving }
  IN  rk.weights.tco * (rk.tco[t] - SetMin(tarr)) * (SetMax(aarr) - SetMin(aarr))
        + rk.weights.emissions * (SetMax(aarr) - rk.ab[t]) * (SetMax(tarr) - SetMin(tarr))

NormalisationDefined ==
  /\ SetMax({ rk.tco[u] : u \in Surviving }) > SetMin({ rk.tco[u] : u \in Surviving })
  /\ SetMax({ rk.ab[u] : u \in Surviving }) > SetMin({ rk.ab[u] : u \in Surviving })

SpecScenario ==
  /\ rk.tco = [t \in Range(RankTechs) |->
                 CASE t = "Avg BF-BOF" -> 100 [] t = "BAT BF-BOF" -> 90
                   [] t = "DRI-EAF" -> 150]
  /\ rk.ab = [t \in Range(RankTechs) |->
                CASE t = "Avg BF-BOF" -> 0 [] t = "BAT BF-BOF" -> 24
                  [] t = "DRI-EAF" -> 10]
  /\ rk.technology_list = RankTechs
  /\ rk.weights = [tco |-> 6, emissions |-> 4]

RankReturned == rk.out \notin {"idle", "none"}

\* C11: when exactly one candidate survives the filtering, the technology
\* get_best_choice returns is that candidate, in "scaled" and in "ranked"
\* mode, whether or not it is the starting technology.
C11_SingleSurvivorChosen ==
  (RankReturned /\ Cardinality(Surviving) = 1) => rk.out \in Surviving

\* C12: when no candidate survives the filtering, get_best_choice returns the
\* starting technology in "scaled" and in "ranked" mode and raises no error.
C12_NoSurvivorKeepsCurrent ==
  (RankReturned /\ Surviving = {}) => rk.out = rk.start_tech

\* the TCO tier relative to the least TCO among the surviving candidates
SurvivorTcoTier(t) ==
  tco_ranker_logic(rk.tco[t], SetMin({ rk.tco[u] : u \in Surviving }))

\* C13: in "ranked" mode the TCO tier of every surviving candidate is 3 above
\* 1.3 times, 2 above 1.1 times, else 1, relative to the least TCO among the
\* surviving candidates.
C13_TiersRelativeToSurvivors ==
  (RankReturned /\ rk.solver_logic = "ranked" /\ Surviving # {}) =>
    \A t \in Surviving : rk.tco_rank_score[t] = SurvivorTcoTier(t)

\* weighted sum of the TCO tier and the abatement tier of a surviving candidate
CombinedRank(t) ==
  SurvivorTcoTier(t) * rk.weights.tco
    + abatement_ranker_logic(rk.ab[t]) * rk.weights.emissions

\* C14: in "ranked" mode the result is a surviving candidate with the least
\* weighted sum of TCO tier and abatement tier, and among the candidates that
\* share that least sum it has the least raw TCO.
C14_RankedChoosesLowestCombinedRank ==
  (RankReturned /\ rk.solver_logic = "ranked" /\ Surviving # {}) =>
    /\ rk.out \in Surviving
    /\ \A u \in Surviving : CombinedRank(rk.out) <= CombinedRank(u)
    /\ \A u \in Surviving :
         CombinedRank(u) = CombinedRank(rk.out) => rk.tco[rk.out] <= rk.tco[u]

\* C15: a second evaluation with the same tables, starting technology, mode,
\* weights and candidate set returns the same technology as the first, in
\* whatever order the candidates arrive.
C15_ChoiceIsDeterministic ==
  (RankReturned /\ rk.again # "none") => rk.again = rk.out

\* return_best_tech is evaluating the plant at the head of the switcher loop
Evaluating == pc \in {"constraints", "rank"}

\* the tco column of the evaluation is the table's times 20 / (20 - (3 + 8))
TcoInflated ==
  \A t \in DOMAIN ev.tco_ref_data :
    (INVESTMENT_CYCLE_DURATION_YEARS
       - (INVESTMENT_OFFCYCLE_BUFFER_TOP + INVESTMENT_OFFCYCLE_BUFFER_TAIL))
      * ev.tco_ref_data[t]
      = INVESTMENT_CYCLE_DURATION_YEARS * TcoTable(cost_case, t)

\* the tco column of the evaluation is the table's
TcoUnchanged ==
  \A t \in DOMAIN ev.tco_ref_data : ev.tco_ref_data[t] = TcoTable(cost_case, t)

\* C16 as stated: every evaluation of switch type "trans switch" ranks on
\* the table's TCO times 20/9, every "main cycle" evaluation on the table's
\* TCO unchanged.
C16_TransSwitchInflated ==
  Evaluating =>
    /\ ev.switch_type = "trans switch" => TcoInflated
    /\ ev.switch_type = "main cycle" => TcoUnchanged

\* C16, amended: an evaluation of switch type "trans switch" ranks on the
\* table's TCO times 20/9 when the scenario setting transitional_switch is
\* on; with the setting off, and in every "main cycle" evaluation, the TCO is
\* passed unchanged.
C16_InflatedInTransitionalMode ==
  Evaluating =>
    /\ (ev.switch_type = "trans switch" /\ trans_switch_scenario) => TcoInflated
    /\ (ev.switch_type = "trans switch" /\ ~ trans_switch_scenario) => TcoUnchanged
    /\ ev.switch_type = "main cycle" => TcoUnchanged

C16_Witness ==
  /\ pc = "rank"
  /\ ev.switch_type = "trans switch"
  /\ trans_switch_scenario
  /\ TcoInflated
  /\ ~ TcoUnchanged

\* the candidate construction of a stand-alone return_best_tech call is done
CandidatesBuilt == pc = "idle" /\ ev.plant_name # "" /\ ev.cand_i = 1

\* t is in a furnace group that the base technology is in
SameFurnaceGroup(t, base_tech) ==
  \E i \in DOMAIN FURNACE_GROUP_DICT :
    t \in FURNACE_GROUP_DICT[i] /\ base_tech \in FURNACE_GROUP_DICT[i]

\* C17: with transitional_switch_only on and a base technology that is not
\* an end-state technology every candidate is in a furnace group of the base
\* technology; with an end-state base technology (or the mode off) every
\* allowed switch that is available is a candidate, whatever its group.
C17_TransitionalStaysInFurnaceGroup ==
  CandidatesBuilt =>
    IF ev.transitional_switch_only
         /\ ev.current_tech \notin TECHNOLOGY_STATES_end_state
    THEN \A t \in Range(ev.combined_available_list) :
           SameFurnaceGroup(t, ev.current_tech)
    ELSE \A t \in SWITCH_DICT(ev.current_tech) :
           tech_availability_check(t, year) =>
             t \in Range(ev.combined_available_list)

C17_Witness ==
  /\ CandidatesBuilt
  /\ ev.transitional_switch_only
  /\ ev.current_tech = "Avg BF-BOF"
  /\ "DRI-EAF" \in SWITCH_DICT(ev.current_tech)
  /\ tech_availability_check("DRI-EAF", year)
  /\ "DRI-EAF" \notin Range(ev.combined_available_list)
  /\ "BAT BF-BOF" \in Range(ev.combined_available_list)

\* C18: when the year is before the availability start year of the base
\* technology, the base technology is a candidate; every other candidate
\* passed the availability check.
C18_BaseTechGrandfathered ==
  CandidatesBuilt =>
    /\ year < tech_avail_from_dict(ev.current_tech) =>
         ev.current_tech \in Range(ev.combined_available_list)
    /\ \A t \in Range(ev.combined_available_list) :
         t # ev.current_tech => tech_availability_check(t, year)

C18_Witness ==
  /\ CandidatesBuilt
  /\ year < tech_avail_from_dict(ev.current_tech)
  /\ ~ tech_availability_check(ev.current_tech, year)
  /\ ev.current_tech \in Range(ev.combined_available_list)
  /\ \E t \in SWITCH_DICT(ev.current_tech) :
       t # ev.current_tech /\ ~ tech_availability_check(t, year)

\* C19: outside the opening of new plants, the schedule of a plant (its cycle
\* years and its used transitional windows) changes in a step if and only if
\* the step ends an evaluation of that plant whose switch type is
\* "trans switch" and whose chosen technology is not the starting technology.
C19_TrackerAdjustedIffTransSwitchChanged ==
  [][ pc # "begin_year" =>
        \A p \in AllPlants :
          (plant_cycles'[p] # plant_cycles[p] \/ trans_used'[p] # trans_used[p])
            <=> /\ pc = "rank"
                /\ pc' # "error"
                /\ p = ev.plant_name
                /\ ev.switch_type = "trans switch"
                /\ choices'[year][p] # ev.current_tech ]_vars

C19_Witness ==
  /\ records # << >>
  /\ records[Len(records)].switch_type
       = "Transitional switch in off-cycle investment year"
  /\ trans_used[records[Len(records)].plant_name] # {}
  /\ (records[Len(records)].year + INVESTMENT_CYCLE_DURATION_YEARS)
       \in plant_cycles[records[Len(records)].plant_name]

\* the starting technology of the plant at the head of the switcher loop
HeadStartingTech ==
  LET plant_name == Head(switchers)
  IN  starting_tech((year = 2020) \/ (year = plant_start_years[plant_name]),
                    technology_in_2020(plant_name),
                    previous_choice(choices, year, plant_name))

\* C20: when the starting technology of the switching plant at hand is empty
\* or not a string, the step raises: the run is in error with no ledger
\* request, no audit entry, no technology written for the plant and the plant
\* still at the head of the loop; and nothing runs after an error.
C20_MissingTechIsFatal ==
  [][ /\ pc # "error"
      /\ (pc = "switchers"
            /\ (~ Truthy(HeadStartingTech) \/ ~ isinstance_str(HeadStartingTech)))
          => /\ pc' = "error"
             /\ UNCHANGED << balance, results, ledger_log, choices, records,
                             switchers, year >> ]_vars

\* the plants of the roster of year y
RosterOf(y) == { p \in Range(model_plant_df) : plant_start_years[p] <= y }

\* the records of the decision log written for plant p and year y
RecordsOf(p, y) ==
  { i \in DOMAIN records : records[i].year = y /\ records[i].plant_name = p }

\* C21: after each completed year the decision log holds exactly one record
\* for every plant of that year's roster and that year; a step leaves the log
\* as it is or appends one record, so no record already written changes.
C21_DecisionLogAppendOnly ==
  /\ [](\A y \in Years : YearDone(y) =>
          \A p \in RosterOf(y) : Cardinality(RecordsOf(p, y)) = 1)
  /\ [][ \/ records' = records
         \/ /\ Len(records') = Len(records) + 1
            /\ SubSeq(records', 1, Len(records)) = records ]_vars

C21_Witness ==
  /\ pc = "done"
  /\ "p4" \in Range(model_plant_df)
  /\ RecordsOf("p4", MODEL_YEAR_END) # {}
  /\ RecordsOf("p4", MODEL_YEAR_START) = {}
  /\ Len(records) > 3 * (MaxYears + 1)
  /\ \E i \in DOMAIN records : records[i].switch_type # "not a switch year"

\* year y lies in the transitional window around the next cycle year of plant
\* p, and the switch of that window has not been taken
InOpenWindow(p, y) ==
  \E c \in plant_cycles[p] :
    /\ c > y
    /\ \A d \in plant_cycles[p] : d > y => c <= d
    /\ c - INVESTMENT_OFFCYCLE_BUFFER_TOP <= y
    /\ y <= c + INVESTMENT_OFFCYCLE_BUFFER_TAIL
    /\ c \notin trans_used[p]

\* the plants of the roster whose evaluation as a switcher is recorded for
\* the year at hand
EvaluatedSwitchers ==
  { p \in Range(model_plant_df) :
      \E i \in RecordsOf(p, year) : records[i].switch_type # "not a switch year" }

\* C22: the switch type of a plant in a year is "main cycle" exactly when
\* the year is one of its cycle years, "trans switch" exactly when the year is
\* no cycle year and lies in the open transitional window around its next
\* cycle year, and "no switch" otherwise; the plants the solver takes as
\* switchers in a year are exactly the plants whose switch type is not
\* "no switch", the rest of the roster being the non-switchers.
C22_SwitchTypeAndSwitchers ==
  (pc \in {"non_switchers", "commit", "switchers", "constraints", "rank"}) =>
    /\ Range(model_plant_df)
         = (non_switchers_df \cup Range(switchers)) \cup EvaluatedSwitchers
    /\ \A p \in non_switchers_df :
         year \notin plant_cycles[p] /\ ~ InOpenWindow(p, year)
    /\ \A p \in Range(switchers) :
         year \in plant_cycles[p] \/ InOpenWindow(p, year)
    /\ Evaluating =>
         /\ ev.plant_name = Head(switchers)
         /\ (ev.switch_type = "main cycle")
              <=> (year \in plant_cycles[ev.plant_name])
         /\ (ev.switch_type = "trans switch")
              <=> (year \notin plant_cycles[ev.plant_name]
                     /\ InOpenWindow(ev.plant_name, year))

C22_Witness ==
  /\ pc = "rank"
  /\ ev.switch_type = "trans switch"
  /\ year > MODEL_YEAR_START
  /\ non_switchers_df # {}
  /\ Len(switchers) > 1

\* year y lies in the transitional window around cycle year c
InWindowOf(c, y) ==
  c - INVESTMENT_OFFCYCLE_BUFFER_TOP <= y /\ y <= c + INVESTMENT_OFFCYCLE_BUFFER_TAIL

\* the schedule new is the schedule old with its next cycle year after y
\* shifted forward, every other cycle year staying on its side of it
NextCycleShifted(old, new, y) ==
  \E c \in old, n \in new :
    /\ c > y /\ \A d \in old : d > y => c <= d
    /\ n > c /\ n \notin old
    /\ new = (old \ {c}) \cup {n}
    /\ Cardinality(new) = Cardinality(old)
    /\ \A d \in old \ {c} : (d < c => d < n) /\ (d > c => d > n)

C24_SwitchDictSelfAndClosed ==
  CandidatesBuilt =>
    /\ \A T \in Range(TECH_REFERENCE_LIST) :
         /\ T \in SWITCH_DICT(T)
         /\ \A t \in SWITCH_DICT(T) : t \in Range(TECH_REFERENCE_LIST)
    /\ ev.current_tech \in Range(valid_switches(ev.current_tech))
    /\ Range(valid_switches(ev.current_tech)) = SWITCH_DICT(ev.current_tech)

C24_Witness ==
  /\ CandidatesBuilt
  /\ ev.current_tech = "Smelting Reduction"
  /\ valid_switches(ev.current_tech)
       = << "Smelting Reduction", "Smelting Reduction+CCUS" >>

\* C25: when the evaluation of a switching plant under enforced constraints
\* ends, the year's balance of every resource has grown, since the evaluation
\* began, by the projected usage of the technology chosen for the plant and
\* by nothing else.
C25_OnlyWinnerBooked ==
  [][ (pc = "rank" /\ enforce_constraints /\ pc' # "error") =>
        \A r \in Resources :
          balance'[r][year]
            = ev.balance_before[r]
                + return_projected_usage(ev.plant_name,
                                         choices'[year][ev.plant_name], r) ]_vars

\* the decision records written by the secondary-EAF rule
PinnedRecords ==
  { i \in DOMAIN records :
      records[i].switch_type = "Secondary capacity is always EAF" }

\* C26: a switching plant is set to EAF by the secondary-EAF rule only when
\* its own technology_in_2020 is EAF and its own primary flag is 'N',
\* whatever plants were processed before it.
C26_PinDependsOnOwnBaseline ==
  \A i \in PinnedRecords :
    /\ technology_in_2020(records[i].plant_name) = "EAF"
    /\ primary[records[i].plant_name] = "N"

\* C27: for every plant and every two consecutive processed years in which
\* the plant is in the roster, when the technology chosen for the earlier
\* year is a technology of SWITCH_DICT the one chosen for the later year is
\* "Close plant" or one of its allowed switches.
C27_ConsecutiveYearsAllowedSwitch ==
  \A p \in Range(model_plant_df), y \in Years :
    (/\ (y + 1) \in Years
     /\ YearDone(y + 1)
     /\ plant_start_years[p] <= y
     /\ p \in DOMAIN choices[y] /\ p \in DOMAIN choices[y + 1]
     /\ choices[y][p] \in Range(TECH_REFERENCE_LIST)) =>
      \/ choices[y + 1][p] = "Close plant"
      \/ choices[y + 1][p] \in SWITCH_DICT(choices[y][p])

\* C28: in "scaled" mode with at least two surviving candidates the call
\* returns a surviving candidate, also when the surviving candidates all have
\* the same TCO or all the same abatement.
C28_ScaledResolvesToSurvivor ==
  (RankReturned /\ rk.solver_logic = "scaled" /\ Cardinality(Surviving) >= 2) =>
    rk.out \in Surviving

\* get_best_choice has returned for the table and for the inflated table
InflatedReturned == RankReturned /\ rk.out_inflated # "none"

\* a TCO value of the slice is exactly 1.1 or 1.3 times the least one
OnTierThreshold ==
  LET min_value == SetMin({ rk.tco[t] : t \in DOMAIN rk.tco })
  IN  \E t \in DOMAIN rk.tco :
        \/ 10 * rk.tco[t] = min_value * TCO_RANK_1_SCALER
        \/ 10 * rk.tco[t] = min_value * TCO_RANK_2_SCALER

\* two surviving candidates of different TCO have exactly the same score
ExactScoreTie ==
  /\ Cardinality(Surviving) >= 2
  /\ NormalisationDefined
  /\ \E t, u \in Surviving :
       rk.tco[t] # rk.tco[u] /\ WeightedScore(t) = WeightedScore(u)

C30_EveryRosterPlantHasTechnology ==
  \A y \in Years : YearDone(y) =>
    \A p \in RosterOf(y) :
      /\ p \in DOMAIN choices[y]
      /\ Truthy(choices[y][p])
      /\ isinstance_str(choices[y][p])
====
